---- MODULE Spec2Model ----
(***************************************************************************)
(* StateTL_calibration.py: template synthesis (create_template_file), the  *)
(* per-sample model run and objective evaluation (run_extern) and the      *)
(* study driver (main).                                                    *)
(***************************************************************************)
EXTENDS Integers, Sequences, FiniteSets, TLC

VARIABLES
    parameters,     \* the parameter table: df.to_dict('index'), in row order
    csv_df,         \* the baseline model input table read from matlab_dir
    template_file,  \* matlab_dir/StateTL_inputdata.tpl: NoFile or its content
    ctf_ret,        \* what create_template_file returned to main ("none" before)
    mainpc,         \* position of main
    keep_previous,  \* par['keep_previous'] of the control file
    calib,          \* what lies under base_dir/calib_dir: the run directories
                    \* par.1, par.2, ..., the results directory, a plain file
    preexisting,    \* the run directories that existed when main started
    nsamples,       \* number of samples of the sample set s
    next_sample,    \* index of the next sample the pool hands out
    wpc,            \* per worker process: its position
    cwd,            \* per worker process: its current working directory
    par_dir,        \* per worker process: run_extern's par_dir
    sample,         \* per worker process: index of the sample it runs
    ierr,           \* per worker process: the model's exit status
    read_out,       \* per worker process: the output file the try block read
    ret             \* per worker process: what run_extern returned

tplvars == <<parameters, csv_df, template_file, ctf_ret>>
runvars == <<keep_previous, calib, preexisting, nsamples, next_sample,
             wpc, cwd, par_dir, sample, ierr, read_out, ret>>
workervars == <<wpc, cwd, par_dir, sample, ierr, read_out, ret>>
vars == <<parameters, csv_df, template_file, ctf_ret, mainpc, keep_previous,
          calib, preexisting, nsamples, next_sample, wpc, cwd, par_dir,
          sample, ierr, read_out, ret>>

----------------------------------------------------------------------------
(* Bounds of the model *)

MaxRecs == 2        \* records in the parameter table
MaxWD == 2          \* water districts 1..MaxWD
MaxReach == 2       \* reaches of one water district in the baseline table
NumSymbols == 2     \* symbols 1..NumSymbols
MaxSamples == 2     \* samples of one study, and run directories par.1..
NumWorkers == 2     \* worker processes of the pool
MaxOutRows == 2     \* rows of a model output table
MaxWDID == 2        \* entity ids 1..MaxWDID of a model output table
MaxSeries == 2      \* length of the numeric series of an output row
MaxVal == 1         \* series values 0..MaxVal

(* Reach value meaning "all reaches of the water district" *)
ALL_REACHES == -1

WDs == 1..MaxWD
Reaches == 1..MaxReach
Symbols == 1..NumSymbols

(* Columns of the baseline table besides WD and Reach, and the column names *)
(* a parameter record may carry ("M" is no column of the baseline table).   *)
TableCols == {"K", "L"}
ParamNames == {"K", "M"}

----------------------------------------------------------------------------
(* Cells of a table *)

Num(n) == [kind |-> "num", v |-> n]
NaN == [kind |-> "nan", v |-> 0]
(* f'~{items["symbol"]}~' *)
Placeholder(symbol) == [kind |-> "ph", v |-> symbol]

(* One row of the parameter table *)
ParameterRecord ==
    [WD : WDs, Reach : {ALL_REACHES} \cup Reaches, parameter : ParamNames,
     symbol : Symbols, vary : BOOLEAN]

ParameterTables == UNION {[1..n -> ParameterRecord] : n \in 0..MaxRecs}

(* The value of baseline cell (row i, column c) *)
BaseValue(i, c) == Num(10 * i + (IF c = "K" THEN 1 ELSE 2))

RECURSIVE BaseRows(_, _, _)
BaseRows(nReach, wd, r) ==
    IF wd > MaxWD THEN <<>>
    ELSE IF r > nReach[wd] THEN BaseRows(nReach, wd + 1, 1)
    ELSE <<[WD |-> wd, Reach |-> r]>> \o BaseRows(nReach, wd, r + 1)

(* A baseline table: water district wd has reaches 1..nReach[wd] *)
BaselineTable(nReach) ==
    LET keys == BaseRows(nReach, 1, 1)
    IN [cols |-> TableCols,
        rows |-> [i \in 1..Len(keys) |->
                    [WD |-> keys[i].WD, Reach |-> keys[i].Reach,
                     c |-> [c \in TableCols |-> BaseValue(i, c)]]]]

BaselineTables == {BaselineTable(f) : f \in [WDs -> 0..MaxReach]}

----------------------------------------------------------------------------
(* create_template_file *)

(* tpl.loc[mask, col] = val, mask given as the set of row positions it      *)
(* selects; a column the frame does not have is added, NaN in the rows the  *)
(* mask leaves out.                                                         *)
LocSet(tpl, mask, col, val) ==
    [cols |-> tpl.cols \cup {col},
     rows |-> [i \in 1..Len(tpl.rows) |->
                [WD |-> tpl.rows[i].WD, Reach |-> tpl.rows[i].Reach,
                 c |-> [c \in tpl.cols \cup {col} |->
                          IF c = col
                          THEN IF i \in mask THEN val
                               ELSE IF col \in tpl.cols THEN tpl.rows[i].c[c]
                               ELSE NaN
                          ELSE tpl.rows[i].c[c]]]]]

(* The mask with the water-district comparison left out *)
MaskWDAllRows(tpl, items) == 1..Len(tpl.rows)

(* tpl.WD == items['WD'] *)
MaskWD(tpl, items) == {i \in 1..Len(tpl.rows) : tpl.rows[i].WD = items.WD}

(* (tpl.WD == items['WD']) & (tpl.Reach == items['Reach']) *)
MaskWDReach(tpl, items) ==
    {i \in 1..Len(tpl.rows) :
        tpl.rows[i].WD = items.WD /\ tpl.rows[i].Reach = items.Reach}

(* The body of the loop over the parameter records *)
ApplyRecord(tpl, items) ==
    LET t1 == IF items.Reach = ALL_REACHES
              THEN LocSet(tpl, MaskWD(tpl, items), items.parameter,
                          Placeholder(items.symbol))
              ELSE tpl
    IN LocSet(t1, MaskWDReach(t1, items), items.parameter,
              Placeholder(items.symbol))

RECURSIVE ApplyRecords(_, _, _)
ApplyRecords(tpl, params, k) ==
    IF k > Len(params) THEN tpl
    ELSE ApplyRecords(ApplyRecord(tpl, params[k]), params, k + 1)

(* symbols_list = df.symbol.unique().tolist() *)
SymbolsList(params) == {params[k].symbol : k \in 1..Len(params)}

(* The template the loop builds from a copy of the baseline table *)
SynthesizeTemplate(params, baseline) == ApplyRecords(baseline, params, 1)

(* What create_template_file does: it writes the template file and returns *)
(* (parameters, len(symbols_list)); no path of it raises a schema error.    *)
create_template_file(params, baseline) ==
    [raised |-> FALSE,
     written |-> [exists |-> TRUE, header |-> "ptf ~", table |-> SynthesizeTemplate(params, baseline)],
     parameters |-> params,
     num_params |-> Cardinality(SymbolsList(params))]

----------------------------------------------------------------------------
(* The files of a run directory and the model output table *)

(* A file that does not exist *)
NoFile == [exists |-> FALSE]

(* Leading metadata columns of an output row: [7:] drops them *)
MetaCols == 7

GAGE == 1
SIM == 2

(* The input file tpl_write materializes for sample i *)
InputFile(i) == [exists |-> TRUE, by |-> i]

(* StateTL_out_calday.csv written by the model run of sample i (0: by a run *)
(* of an earlier study): readable or not, rows [WDID, disc, series].        *)
OutputFile(i, readable, rows) ==
    [exists |-> TRUE, by |-> i, readable |-> readable, rows |-> rows]

(* A run directory *)
NoDir == [gen |-> "absent", input |-> NoFile, output |-> NoFile]
NewDir == [gen |-> "new", input |-> NoFile, output |-> NoFile]

(* Output rows: one series of length n per row *)
OutputRows(n) ==
    [WDID : 1..MaxWDID, disc : {GAGE, SIM, 3}, series : [1..n -> 0..MaxVal]]

(* Output tables in which no two rows carry the same (WDID, disc) *)
OutputTables ==
    UNION {{t \in UNION {[1..k -> OutputRows(n)] : k \in 1..MaxOutRows} :
               \A i, j \in 1..Len(t) :
                   (t[i].WDID = t[j].WDID /\ t[i].disc = t[j].disc) => i = j}
           : n \in 0..MaxSeries}

(* The output the model writes for the series of the results example:      *)
(* entity 100, gauge [1,2,3], simulated [1,1,4].                            *)
ExampleOutput ==
    <<[WDID |-> 100, disc |-> GAGE, series |-> <<1, 2, 3>>],
      [WDID |-> 100, disc |-> SIM, series |-> <<1, 1, 4>>]>>

(* An output with a simulated row and no gauge row, one value long *)
UnpairedOutput == <<[WDID |-> 100, disc |-> SIM, series |-> <<1>>]>>

----------------------------------------------------------------------------
(* run_extern: the try block *)

(* The failure value 1e999 *)
Inf == [kind |-> "inf"]

(* One row as to_numpy().flatten() lays it out *)
FlatRow(r) == <<r.WDID, r.disc, 0, 0, 0, 0, 0>> \o r.series

RECURSIVE Flatten(_, _, _, _)
(* results_df[(WDID == id) & (disc == d)].to_numpy().flatten() *)
Flatten(rows, id, d, k) ==
    IF k > Len(rows) THEN <<>>
    ELSE (IF rows[k].WDID = id /\ rows[k].disc = d THEN FlatRow(rows[k]) ELSE <<>>)
         \o Flatten(rows, id, d, k + 1)

(* a[7:] *)
DropMeta(a) ==
    IF Len(a) <= MetaCols THEN <<>> ELSE SubSeq(a, MetaCols + 1, Len(a))

(* a - b on one-dimensional arrays: equal shapes elementwise, a shape of    *)
(* one value stretched to the other shape (also to the empty shape),        *)
(* otherwise ValueError.                                                    *)
Subtract(a, b) ==
    IF Len(a) = Len(b)
    THEN [err |-> FALSE, val |-> [i \in 1..Len(a) |-> a[i] - b[i]]]
    ELSE IF Len(a) = 1
    THEN [err |-> FALSE, val |-> [i \in 1..Len(b) |-> a[1] - b[i]]]
    ELSE IF Len(b) = 1
    THEN [err |-> FALSE, val |-> [i \in 1..Len(a) |-> a[i] - b[1]]]
    ELSE [err |-> TRUE, val |-> <<>>]

RECURSIVE SumSq(_, _)
SumSq(a, k) == IF k > Len(a) THEN 0 ELSE a[k] * a[k] + SumSq(a, k + 1)

(* np.sqrt(np.mean(d**2)): the root of sumsq/n, not-a-number for no values *)
RootMeanSquare(d) ==
    IF Len(d) = 0 THEN [kind |-> "nan", sumsq |-> 0, n |-> 0]
    ELSE [kind |-> "rmse", sumsq |-> SumSq(d, 1), n |-> Len(d)]

(* WDID_list = results_df.iloc[:, 0].unique().tolist() *)
WDIDList(rows) == {rows[k].WDID : k \in 1..Len(rows)}

(* sim_data - gauge_data of one WDID *)
Difference(rows, id) ==
    Subtract(DropMeta(Flatten(rows, id, SIM, 1)),
             DropMeta(Flatten(rows, id, GAGE, 1)))

(* Lines 94-107: exc when read_csv or the loop raises, else RMSE_df *)
TryBlock(file) ==
    IF ~file.exists THEN [exc |-> TRUE, df |-> Inf]
    ELSE IF ~file.readable THEN [exc |-> TRUE, df |-> Inf]
    ELSE IF \E id \in WDIDList(file.rows) : Difference(file.rows, id).err
    THEN [exc |-> TRUE, df |-> Inf]
    ELSE [exc |-> FALSE,
          df |-> [kind |-> "df",
                  rmse |-> [id \in WDIDList(file.rows) |->
                              RootMeanSquare(Difference(file.rows, id).val)]]]

(* The try block without its except clause *)
EvaluateOutputUncaught(file) ==
    [raised |-> TryBlock(file).exc, value |-> TryBlock(file).df]

(* Lines 93-112: what run_extern returns for the output file it finds *)
EvaluateOutput(file) ==
    IF TryBlock(file).exc THEN [raised |-> FALSE, value |-> Inf]
    ELSE [raised |-> FALSE, value |-> TryBlock(file).df]

----------------------------------------------------------------------------
(* Directories *)

BaseDir == [at |-> "base", n |-> 0]
MatlabDir == [at |-> "matlab", n |-> 0]
(* base_dir/calib_dir/par.i *)
RunDir(i) == [at |-> "par", n |-> i]
Nowhere == [at |-> "none", n |-> 0]

(* One directory for every run *)
ParDirShared(dir) == RunDir(1)

(* par_dir = Path.cwd() *)
ParDir(dir) == dir

(* No exit status yet *)
NoStatus == [ran |-> FALSE, code |-> 0]
ExitStatus(c) == [ran |-> TRUE, code |-> c]

NoRet == [raised |-> FALSE, value |-> [kind |-> "none"]]

Workers == 1..NumWorkers
RunIds == 1..MaxSamples

----------------------------------------------------------------------------
(* main *)

NoReturn == [raised |-> FALSE, written |-> NoFile, parameters |-> <<>>, num_params |-> 0]

(* parameters, num_params = create_template_file(...) *)
MainTemplate ==
    /\ mainpc = "start"
    /\ LET r == create_template_file(parameters, csv_df)
       IN /\ ctf_ret' = r
          /\ template_file' = IF r.raised THEN template_file ELSE r.written
          /\ mainpc' = IF r.raised THEN "aborted" ELSE "templated"
    /\ UNCHANGED <<parameters, csv_df>>
    /\ UNCHANGED runvars

(* The run directories that exist under calib_dir *)
ExistingDirs(c) == {i \in RunIds : c.dirs[i].gen # "absent"}

(* The folders main removes whatever keep_previous says *)
FoldersToDeleteAlways(keep, c) == ExistingDirs(c)

(* if keep_previous == 'delete': folders = glob(str(folders_to_delete)) *)
FoldersToDelete(keep, c) == IF keep = "delete" THEN ExistingDirs(c) ELSE {}

(* Lines 163-171: remove what glob found, then make the results directory. *)
(* shutil.rmtree raises on an entry that is a plain file; the entries glob  *)
(* listed before it are gone by then, and main ends there.                  *)
MainCleanup ==
    /\ mainpc = "templated"
    /\ LET del == FoldersToDelete(keep_previous, calib)
           globbed == keep_previous = "delete"
       IN IF globbed /\ calib.plain_file
          THEN /\ \E gone \in SUBSET del, res \in BOOLEAN :
                    calib' = [calib EXCEPT
                       !.dirs = [i \in RunIds |->
                                   IF i \in gone THEN NoDir ELSE calib.dirs[i]],
                       !.results = IF res THEN "absent" ELSE calib.results]
               /\ mainpc' = "aborted"
          ELSE /\ calib' = [calib EXCEPT
                       !.dirs = [i \in RunIds |->
                                   IF i \in del THEN NoDir ELSE calib.dirs[i]],
                       !.results = IF globbed \/ calib.results = "absent"
                                   THEN "new" ELSE calib.results]
               /\ mainpc' = "running"
    /\ UNCHANGED tplvars
    /\ UNCHANGED <<keep_previous, preexisting, nsamples, next_sample>>
    /\ UNCHANGED workervars

(* s.run(cpus, workdir_base, reuse_dirs=True): a free worker takes the next *)
(* sample i, makes workdir_base.i unless it is there, and enters it. The    *)
(* workers are alike, so the free worker of lowest number stands for any.   *)
Dispatch(w) ==
    /\ mainpc = "running"
    /\ wpc[w] = "idle"
    /\ \A v \in Workers : wpc[v] = "idle" => w <= v
    /\ next_sample <= nsamples
    /\ next_sample <= MaxSamples
    /\ sample' = [sample EXCEPT ![w] = next_sample]
    /\ next_sample' = next_sample + 1
    /\ calib' = [calib EXCEPT !.dirs[next_sample] =
                    IF @.gen = "absent" THEN NewDir ELSE @]
    /\ cwd' = [cwd EXCEPT ![w] = RunDir(next_sample)]
    /\ wpc' = [wpc EXCEPT ![w] = "call"]
    /\ UNCHANGED tplvars
    /\ UNCHANGED <<mainpc, keep_previous, preexisting, nsamples>>
    /\ UNCHANGED <<par_dir, ierr, read_out, ret>>

(* Lines 73-77: par_dir is the current directory; tpl_write writes the      *)
(* input file there, or raises.                                             *)
TplWrite(w) ==
    /\ wpc[w] = "call"
    /\ par_dir' = [par_dir EXCEPT ![w] = ParDir(cwd[w])]
    /\ \/ /\ calib' = [calib EXCEPT !.dirs[ParDir(cwd[w]).n].input =
                          InputFile(sample[w])]
          /\ wpc' = [wpc EXCEPT ![w] = "written"]
       \/ /\ wpc' = [wpc EXCEPT ![w] = "raised"]
          /\ UNCHANGED calib
    /\ UNCHANGED tplvars
    /\ UNCHANGED <<mainpc, keep_previous, preexisting, nsamples, next_sample>>
    /\ UNCHANGED <<cwd, sample, ierr, read_out, ret>>

(* Lines 80-86: chdir to matlab_dir, then subprocess.run starts the model,  *)
(* or raises because the executable cannot be started.                      *)
Launch(w) ==
    /\ wpc[w] = "written"
    /\ cwd' = [cwd EXCEPT ![w] = MatlabDir]
    /\ \/ wpc' = [wpc EXCEPT ![w] = "model"]
       \/ wpc' = [wpc EXCEPT ![w] = "raised"]
    /\ UNCHANGED tplvars
    /\ UNCHANGED <<mainpc, keep_previous, calib, preexisting, nsamples, next_sample>>
    /\ UNCHANGED <<par_dir, sample, ierr, read_out, ret>>

(* What the model may write into the run directory *)
ModelOutputs(i) ==
    {OutputFile(i, TRUE, ExampleOutput), OutputFile(i, TRUE, UnpairedOutput)}

(* Lines 86-91: the model exits with some status, having written its output *)
(* file into \tests\<par_dir.name> or not; chdir back to par_dir.            *)
ModelExit(w) ==
    /\ wpc[w] = "model"
    /\ \E c \in {0, 1} : ierr' = [ierr EXCEPT ![w] = ExitStatus(c)]
    /\ \/ \E f \in ModelOutputs(sample[w]) :
              calib' = [calib EXCEPT !.dirs[par_dir[w].n].output = f]
       \/ UNCHANGED calib
    /\ cwd' = [cwd EXCEPT ![w] = par_dir[w]]
    /\ wpc' = [wpc EXCEPT ![w] = "ran"]
    /\ UNCHANGED tplvars
    /\ UNCHANGED <<mainpc, keep_previous, preexisting, nsamples, next_sample>>
    /\ UNCHANGED <<par_dir, sample, read_out, ret>>

(* Lines 93-112: read StateTL_out_calday.csv of the current directory and   *)
(* return the RMSE frame or the failure value.                              *)
Evaluate(w) ==
    /\ wpc[w] = "ran"
    /\ cwd[w].at = "par"
    /\ LET file == calib.dirs[cwd[w].n].output
           r == EvaluateOutput(file)
       IN /\ read_out' = [read_out EXCEPT ![w] = file]
          /\ ret' = [ret EXCEPT ![w] = r]
          /\ wpc' = [wpc EXCEPT ![w] = IF r.raised THEN "raised" ELSE "returned"]
    /\ UNCHANGED tplvars
    /\ UNCHANGED <<mainpc, keep_previous, calib, preexisting, nsamples, next_sample>>
    /\ UNCHANGED <<cwd, par_dir, sample, ierr>>

(* The pool takes the run's result (or its exception) and the worker is     *)
(* free for the next sample.                                                *)
Collect(w) ==
    /\ wpc[w] \in {"returned", "raised"}
    /\ wpc' = [wpc EXCEPT ![w] = "idle"]
    /\ cwd' = [cwd EXCEPT ![w] = BaseDir]
    /\ par_dir' = [par_dir EXCEPT ![w] = Nowhere]
    /\ sample' = [sample EXCEPT ![w] = 0]
    /\ ierr' = [ierr EXCEPT ![w] = NoStatus]
    /\ read_out' = [read_out EXCEPT ![w] = NoFile]
    /\ ret' = [ret EXCEPT ![w] = NoRet]
    /\ UNCHANGED tplvars
    /\ UNCHANGED <<mainpc, keep_previous, calib, preexisting, nsamples, next_sample>>

(* s.run returns when every sample has been run *)
MainDone ==
    /\ mainpc = "running"
    /\ next_sample > nsamples
    /\ \A w \in Workers : wpc[w] = "idle"
    /\ mainpc' = "done"
    /\ UNCHANGED tplvars
    /\ UNCHANGED runvars

----------------------------------------------------------------------------
(* Initial states *)

IdleWorkers ==
    /\ wpc = [w \in Workers |-> "idle"]
    /\ cwd = [w \in Workers |-> BaseDir]
    /\ par_dir = [w \in Workers |-> Nowhere]
    /\ sample = [w \in Workers |-> 0]
    /\ ierr = [w \in Workers |-> NoStatus]
    /\ read_out = [w \in Workers |-> NoFile]
    /\ ret = [w \in Workers |-> NoRet]

EmptyCalib ==
    [dirs |-> [i \in RunIds |-> NoDir], results |-> "absent", plain_file |-> FALSE]

(* A run directory an earlier study left, with its input and output file *)
OldDirs ==
    {[gen |-> "old", input |-> InputFile(0),
      output |-> OutputFile(0, TRUE, ExampleOutput)]}

NoStudy ==
    /\ keep_previous = "delete"
    /\ calib = EmptyCalib
    /\ preexisting = {}
    /\ nsamples = 1
    /\ next_sample = 1
    /\ IdleWorkers

InitTpl ==
    /\ parameters \in ParameterTables
    /\ csv_df \in BaselineTables
    /\ template_file = NoFile
    /\ ctf_ret = NoReturn
    /\ mainpc = "start"
    /\ NoStudy

NextTpl == MainTemplate

(* create_template_file over every parameter table of at most MaxRecs records *)
SpecTpl == InitTpl /\ [][NextTpl]_vars

(* Parameter tables of at most one record *)
OneRecordTables == {<<>>} \cup {<<r>> : r \in ParameterRecord}

InitOne ==
    /\ parameters \in OneRecordTables
    /\ csv_df \in BaselineTables
    /\ template_file = NoFile
    /\ ctf_ret = NoReturn
    /\ mainpc = "start"
    /\ NoStudy

NextOne == MainTemplate

(* create_template_file over the parameter tables of at most one record *)
SpecOne == InitOne /\ [][NextOne]_vars

(* The parameter table and the baseline table of the sentinel example: one *)
(* record for all reaches of water district 1, which has two reaches.       *)
ExampleParameters ==
    <<[WD |-> 1, Reach |-> ALL_REACHES, parameter |-> "K", symbol |-> 1, vary |-> TRUE]>>
ExampleBaseline == BaselineTable([wd \in WDs |-> IF wd = 1 THEN 2 ELSE 0])

(* main starts in base_dir with whatever an earlier study left under        *)
(* calib_dir.                                                               *)
Init ==
    /\ parameters = ExampleParameters
    /\ csv_df = ExampleBaseline
    /\ template_file = NoFile
    /\ ctf_ret = NoReturn
    /\ mainpc = "start"
    /\ keep_previous \in {"delete", "reuse"}
    /\ \E d \in [RunIds -> {NoDir} \cup OldDirs], res \in {"absent", "old"},
          pf \in BOOLEAN :
          calib = [dirs |-> d, results |-> res, plain_file |-> pf]
    /\ preexisting = ExistingDirs(calib)
    /\ nsamples \in 1..MaxSamples
    /\ next_sample = 1
    /\ IdleWorkers

Next ==
    \/ MainTemplate
    \/ MainCleanup
    \/ \E w \in Workers : Dispatch(w)
    \/ \E w \in Workers : TplWrite(w)
    \/ \E w \in Workers : Launch(w)
    \/ \E w \in Workers : ModelExit(w)
    \/ \E w \in Workers : Evaluate(w)
    \/ \E w \in Workers : Collect(w)
    \/ MainDone

(* A whole study *)
Spec == Init /\ [][Next]_vars

(* A worker whose model has exited, in its run directory, before the try    *)
(* block: the run directory holds any output table, an unreadable output    *)
(* file, or no output file.                                                 *)
InitEval ==
    /\ parameters = ExampleParameters
    /\ csv_df = ExampleBaseline
    /\ template_file = create_template_file(ExampleParameters, ExampleBaseline).written
    /\ ctf_ret = create_template_file(ExampleParameters, ExampleBaseline)
    /\ mainpc = "running"
    /\ keep_previous = "delete"
    /\ \E f \in {NoFile, OutputFile(1, FALSE, <<>>)}
                  \cup {OutputFile(1, TRUE, t) : t \in OutputTables} :
          calib = [EmptyCalib EXCEPT
                     !.dirs[1] = [gen |-> "new", input |-> InputFile(1), output |-> f],
                     !.results = "new"]
    /\ preexisting = {}
    /\ nsamples = 1
    /\ next_sample = 2
    /\ wpc = [w \in Workers |-> IF w = 1 THEN "ran" ELSE "idle"]
    /\ cwd = [w \in Workers |-> IF w = 1 THEN RunDir(1) ELSE BaseDir]
    /\ par_dir = [w \in Workers |-> IF w = 1 THEN RunDir(1) ELSE Nowhere]
    /\ sample = [w \in Workers |-> IF w = 1 THEN 1 ELSE 0]
    /\ \E c \in {0, 1} :
          ierr = [w \in Workers |-> IF w = 1 THEN ExitStatus(c) ELSE NoStatus]
    /\ read_out = [w \in Workers |-> NoFile]
    /\ ret = [w \in Workers |-> NoRet]

NextEval == \E w \in Workers : Evaluate(w)

(* The try block of run_extern over every output table within the bounds *)
SpecEval == InitEval /\ [][NextEval]_vars

----------------------------------------------------------------------------
(* Properties of create_template_file *)

Templated == mainpc = "templated" /\ template_file.exists

(* The rows of the baseline table a record names *)
TargetRows(items) ==
    IF items.Reach = ALL_REACHES THEN MaskWD(csv_df, items)
    ELSE MaskWDReach(csv_df, items)

(* A record that names rows or a column the baseline table does not have *)
Unmatched(items) ==
    TargetRows(items) = {} \/ items.parameter \notin csv_df.cols

(* Symbol s stands as a placeholder in some cell of the written template *)
OccursInTemplate(s) ==
    \E i \in 1..Len(template_file.table.rows) :
        \E c \in template_file.table.cols :
            template_file.table.rows[i].c[c] = Placeholder(s)

(* Record j has an explicit reach, record i the sentinel reach, both for    *)
(* the same water district and column, and no third record names the cell. *)
SentinelAndExplicit(i, j) ==
    /\ i # j
    /\ parameters[i].Reach = ALL_REACHES
    /\ parameters[j].Reach # ALL_REACHES
    /\ parameters[i].WD = parameters[j].WD
    /\ parameters[i].parameter = parameters[j].parameter
    /\ \A k \in (1..Len(parameters)) \ {i, j} :
          \/ parameters[k].WD # parameters[j].WD
          \/ parameters[k].parameter # parameters[j].parameter
          \/ parameters[k].Reach \notin {ALL_REACHES, parameters[j].Reach}

(* C1: with a sentinel-reach record and an explicit-reach record for the    *)
(* same water district and column, in either order, the explicit reach's    *)
(* row holds the explicit record's placeholder in that column.              *)
C1_ExplicitWins ==
    Templated =>
        \A i, j \in 1..Len(parameters) :
            SentinelAndExplicit(i, j) =>
                \A r \in MaskWDReach(csv_df, parameters[j]) :
                    template_file.table.rows[r].c[parameters[j].parameter]
                        = Placeholder(parameters[j].symbol)

(* C7: a record naming a water district / reach with no row in the baseline *)
(* table, or a column the table lacks, makes create_template_file fail: it  *)
(* does not return normally, no template is written, main goes no further.  *)
C7_SchemaError ==
    (mainpc # "start" /\ \E k \in 1..Len(parameters) : Unmatched(parameters[k]))
        => /\ ctf_ret.raised
           /\ ~template_file.exists
           /\ mainpc = "aborted"

UniqueSymbols(params) ==
    \A i, j \in 1..Len(params) : params[i].symbol = params[j].symbol => i = j

(* C8: when the symbols of the table are unique, every symbol of a record   *)
(* with vary = true is the placeholder of at least one template cell.       *)
C8_EveryVarySymbolOccurs ==
    (Templated /\ UniqueSymbols(parameters)) =>
        \A k \in 1..Len(parameters) :
            parameters[k].vary => OccursInTemplate(parameters[k].symbol)

(* The table is one sentinel-reach record for a column of the baseline *)
OneSentinelRecord ==
    /\ Len(parameters) = 1
    /\ parameters[1].Reach = ALL_REACHES
    /\ parameters[1].parameter \in csv_df.cols

(* C9: for a table of one sentinel-reach record for water district D and    *)
(* column C, the template equals the baseline table except that cell        *)
(* (row, C) of every row of water district D holds the record's placeholder;*)
(* the columns, the row count and the row order are the baseline's.         *)
C9_SentinelExpansion ==
    (Templated /\ OneSentinelRecord) =>
        LET t == template_file.table
            rec == parameters[1]
        IN /\ t.cols = csv_df.cols
           /\ Len(t.rows) = Len(csv_df.rows)
           /\ \A i \in 1..Len(t.rows) :
                /\ t.rows[i].WD = csv_df.rows[i].WD
                /\ t.rows[i].Reach = csv_df.rows[i].Reach
                /\ \A c \in t.cols :
                     t.rows[i].c[c] =
                        IF csv_df.rows[i].WD = rec.WD /\ c = rec.parameter
                        THEN Placeholder(rec.symbol)
                        ELSE csv_df.rows[i].c[c]

(* A template synthesized from one sentinel record whose water district has *)
(* two rows in a baseline table that also has a row of another district.    *)
C9_Witness ==
    /\ Templated
    /\ OneSentinelRecord
    /\ Cardinality(MaskWD(csv_df, parameters[1])) >= 2
    /\ Cardinality(MaskWD(csv_df, parameters[1])) < Len(csv_df.rows)
    /\ \A r \in MaskWD(csv_df, parameters[1]) :
          template_file.table.rows[r].c[parameters[1].parameter]
              = Placeholder(parameters[1].symbol)

----------------------------------------------------------------------------
(* Properties of run_extern and main *)

(* The run directory run_extern works in *)
OwnDir(w) == calib.dirs[par_dir[w].n]

(* run_extern of worker w has returned or raised *)
Exited(w) == wpc[w] \in {"returned", "raised"}

(* C2: when the model has exited, with whatever status, and the run         *)
(* directory holds no output file, run_extern does not raise and returns    *)
(* the failure value.                                                       *)
C2_AbsentOutputGivesInf ==
    \A w \in Workers :
        (ierr[w].ran /\ ~OwnDir(w).output.exists) =>
            /\ wpc[w] \in {"ran", "returned"}
            /\ wpc[w] = "returned" => (~ret[w].raised /\ ret[w].value = Inf)

(* run_extern has returned the failure value after a model run that exited  *)
(* with status 0 and left no output file.                                   *)
C2_Witness ==
    \E w \in Workers :
        /\ wpc[w] = "returned"
        /\ ierr[w] = ExitStatus(0)
        /\ ~OwnDir(w).output.exists
        /\ ret[w].value = Inf

(* Entity id has a gauge row and a simulated row *)
Paired(rows, id) ==
    /\ \E k \in 1..Len(rows) : rows[k].WDID = id /\ rows[k].disc = GAGE
    /\ \E k \in 1..Len(rows) : rows[k].WDID = id /\ rows[k].disc = SIM

(* C3: when the output table is readable and some entity id lacks its gauge *)
(* row or its simulated row, run_extern returns the failure value and does  *)
(* not raise, for every length of the series.                               *)
C3_UnpairedGivesInf ==
    \A w \in Workers :
        (/\ Exited(w)
         /\ read_out[w].exists
         /\ read_out[w].readable
         /\ \E id \in WDIDList(read_out[w].rows) : ~Paired(read_out[w].rows, id))
        => (wpc[w] = "returned" /\ ret[w].value = Inf)

(* C4: on every exit of run_extern, by return or by exception, the current  *)
(* working directory is the one it was entered in, par_dir.                 *)
C4_CwdRestored ==
    \A w \in Workers : Exited(w) => cwd[w] = par_dir[w]

(* C5: while the model runs, the run directory holds the input file of this *)
(* run and no output file; an output file the try block read was written by *)
(* this run.                                                                *)
C5_OnlyInputAtInvocation ==
    \A w \in Workers :
        /\ wpc[w] = "model" =>
              (OwnDir(w).input = InputFile(sample[w]) /\ ~OwnDir(w).output.exists)
        /\ (wpc[w] = "returned" /\ read_out[w].exists) =>
              read_out[w].by = sample[w]

(* A run directory has been made or a sample handed out *)
StudyUnderWay ==
    next_sample > 1 \/ \E i \in RunIds : calib.dirs[i].gen = "new"

(* C6: with keep_previous = "delete" no run directory of before main is     *)
(* left once a run directory is made or a sample is run; with another value *)
(* every run directory of before main stays.                                *)
C6_DeleteBeforeRuns ==
    /\ (keep_previous = "delete" /\ StudyUnderWay) =>
           \A i \in RunIds : calib.dirs[i].gen # "old"
    /\ keep_previous # "delete" =>
           \A i \in preexisting : calib.dirs[i].gen = "old"

(* Two run directories existed, keep_previous is "delete", and a new run    *)
(* directory has been made with none of the old ones left.                  *)
C6_Witness ==
    /\ keep_previous = "delete"
    /\ Cardinality(preexisting) >= 2
    /\ \E i \in RunIds : calib.dirs[i].gen = "new"
    /\ \A i \in RunIds : calib.dirs[i].gen # "old"

(* run_extern of worker w is between its entry and its exit *)
InFlight(w) == wpc[w] \in {"written", "model", "ran"}

(* C10: no two runs in flight at the same time have the same par_dir, and   *)
(* the input file in a run's directory is the one that run wrote.           *)
C10_DistinctRunDirs ==
    /\ \A w1, w2 \in Workers :
          (w1 # w2 /\ InFlight(w1) /\ InFlight(w2)) => par_dir[w1] # par_dir[w2]
    /\ \A w \in Workers :
          InFlight(w) => OwnDir(w).input = InputFile(sample[w])

(* Two workers have their models running at the same time *)
C10_Witness ==
    \E w1, w2 \in Workers :
        /\ w1 # w2
        /\ wpc[w1] = "model"
        /\ wpc[w2] = "model"
        /\ par_dir[w1] # par_dir[w2]

====
